---- MODULE Spec2Model ----
(***************************************************************************)
(* Model of the podcast generator: src/podcast.py (class Podcast) and the  *)
(* generation endpoint of src/app.py (post_generate, bg_generate,          *)
(* clean_up).  A generation request r is posted with a list-shaped         *)
(* content configuration; its background unit normalises the               *)
(* configuration, sequences the ingested content into a script,            *)
(* synthesizes the sections one by one, merges, exports, uploads and       *)
(* cleans the shared directories.                                          *)
(*                                                                         *)
(* Section texts are not modelled: no claim checked here reads them.       *)
(***************************************************************************)
EXTENDS Integers, Sequences, FiniteSets, TLC

\* ------------------------------------------------------------------ bounds

\* Longest content_config list a request carries.
MaxConfig == 3

\* Longest list the ingestion returns when sequencing is explored.
MaxContent == 4

\* Longest list the ingestion returns when the whole pipeline is explored.
MaxPipeContent == 3

\* ------------------------------------------------------------- basic values

Requests == {1, 2}

Voices == {"male", "female"}

\* A key that is absent from a configuration entry.
None == "none"

\* ------------------------------------------------------------------- files

\* A file on disk: the directory it lives in, the request it was written for
\* and a number that tells the files of one request apart.
File(d, r, n) == [dir |-> d, owner |-> r, n |-> n]

\* audio_path of a section that has no audio yet (falsy in the code).
NoFile == File("none", 0, 0)

\* ---------------------------------------------------------------- sections

Section(kind, role, idx, voice, ht, news, audio) ==
    [kind |-> kind, role |-> role, idx |-> idx, voice |-> voice,
     has_transition |-> ht, is_news |-> news, audio_path |-> audio]

\* A section variable that is not bound yet.
NoSection == Section("none", "none", 0, "none", FALSE, FALSE, NoFile)

\* A section built from a template record {text, voice}.
TemplateSection(kind, role, voice) ==
    Section(kind, role, 0, voice, FALSE, FALSE, NoFile)

TransitionNames ==
    {"intro_to_content", "content_intro_to_content_info", "to_last_content", "to_outro"}

NoTransitions == [n \in TransitionNames |-> NoSection]

\* ----------------------------------------------------- python list helpers

Max(a, b) == IF a >= b THEN a ELSE b

\* s[k] for a negative python index k is defined iff -k <= len(s);
\* for k >= 0 iff k < len(s).
PyHas(s, k) == IF k < 0 THEN -k <= Len(s) ELSE k < Len(s)

\* s[k] with python indexing (0-based, negative from the end).
PyAt(s, k) == IF k < 0 THEN s[Len(s) + 1 + k] ELSE s[k + 1]

\* s[:-k] for k > 0.
PyDropLast(s, k) == SubSeq(s, 1, Len(s) - k)

\* s[-k:] for k > 0.
PyTakeLast(s, k) == SubSeq(s, Max(1, Len(s) - k + 1), Len(s))

\* s[:i] + s[i+1:] for a python index i >= 0.
PyRemoveAt(s, i) == SubSeq(s, 1, i) \o SubSeq(s, i + 2, Len(s))

\* ------------------------------------------------- content configuration

ConfigEntry(type, speaker) == [type |-> type, speaker |-> speaker]

\* The entries a request may carry: Intro and Outro directives with or
\* without a "speaker" key, the gimmick slot and a content entry.
ConfigEntries ==
    {ConfigEntry("Intro", None), ConfigEntry("Intro", "female"),
     ConfigEntry("Outro", None), ConfigEntry("Outro", "male"),
     ConfigEntry("gimmick", None), ConfigEntry("news", None)}

Configs(n) == UNION {[1..k -> ConfigEntries] : k \in 0..n}

\* The empty body and two bodies of the usual shape [Intro, ..., Outro]: one
\* leaves the voices to the templates and has no gimmick slot, the other names
\* both speakers and has a gimmick slot.
TypicalBodies ==
    {<< >>,
     <<ConfigEntry("Intro", None), ConfigEntry("news", None), ConfigEntry("Outro", None)>>,
     <<ConfigEntry("Intro", "female"), ConfigEntry("gimmick", None),
       ConfigEntry("Outro", "male")>>}

\* The body of the requests that run side by side.
ConcurrentBodies ==
    {<<ConfigEntry("Intro", "female"), ConfigEntry("news", None),
       ConfigEntry("Outro", "male")>>}

\* The value of the loop variable i after
\*   i = 0
\*   for i, item in enumerate(cfg): if item["type"] == type: ...; break
\* python index of the first entry of that type; when the loop runs to its
\* end without break, i stays at the last index visited (0 for an empty list).
LoopIndex(cfg, type) ==
    IF \E j \in 1..Len(cfg) : cfg[j].type = type
    THEN (CHOOSE j \in 1..Len(cfg) :
              /\ cfg[j].type = type
              /\ \A k \in 1..(j - 1) : cfg[k].type # type) - 1
    ELSE Max(0, Len(cfg) - 1)

\* The voice after the directive loop: item["speaker"] of the first entry of
\* that type if it has the key, the template's voice otherwise.
DirectiveVoice(cfg, type, templateVoice) ==
    IF /\ \E j \in 1..Len(cfg) : cfg[j].type = type
       /\ cfg[LoopIndex(cfg, type) + 1].speaker # None
    THEN cfg[LoopIndex(cfg, type) + 1].speaker
    ELSE templateVoice

\* self.content_config after generate_intro / generate_outro (list shape).
ConfigAfter(cfg, type) == PyRemoveAt(cfg, LoopIndex(cfg, type))

\* has_gimmick = any(content["type"] == "gimmick" for content in content_config)
HasGimmick(cfg) == \E j \in 1..Len(cfg) : cfg[j].type = "gimmick"

\* ---------------------------------------------------------------- ingestion

\* The kinds of section the ingestion returns.  The sequencer only tells a
\* Transition from the other kinds, so one other kind stands for them.
ContentKinds == {"NewsBody", "Transition"}

\* The lists ContentManager.__ingest__ may return for request r: at most n
\* sections, numbered in their ingested order, with voices among speakers;
\* pre says whether a section may come with audio already attached.
IngestedContents(r, n, speakers, pre) ==
    UNION {{[i \in 1..k |->
                Section(f[i][1], "content", i, f[i][2], TRUE, TRUE,
                        IF f[i][3] THEN File("assets", r, i) ELSE NoFile)] :
            f \in [1..k -> ContentKinds \X speakers \X pre]} : k \in 0..n}

\* One list the ingestion may return: MaxPipeContent news sections of one
\* voice, none with audio.
PlainContents(r) ==
    {c \in IngestedContents(r, MaxPipeContent, {"male"}, {FALSE}) :
        /\ Len(c) = MaxPipeContent
        /\ \A j \in 1..Len(c) : c[j].kind = "NewsBody" /\ c[j].voice = "male"}

\* The lists the ingestion may return for request r when it sets the flags of
\* its sections freely: at most n sections of one voice, none with audio, of
\* which at most one is a Transition.
FlaggedContents(r, n) ==
    UNION {{[i \in 1..k |->
                Section(f[i][1], "content", i, "male", f[i][2], f[i][3], NoFile)] :
            f \in {g \in [1..k -> ContentKinds \X BOOLEAN \X BOOLEAN] :
                      \A a \in 1..k, b \in 1..k :
                          (g[a][1] = "Transition" /\ g[b][1] = "Transition") => a = b}} :
           k \in 0..n}

\* --------------------------------------------------------------- sequencing

IsTransition(s) == s.kind = "Transition"

\* A faulty variant of SplitSize: the branch is chosen by content[-2].
SplitSizeBySecondFromLast(content) == IF ~IsTransition(PyAt(content, -2)) THEN 2 ELSE 3

\* A faulty variant of SplitSize: the Transition branch is never taken.
SplitSizeAlwaysTwo(content) == 2

\* Number of entries the second half takes: 2 unless content[-3] is a
\* Transition, then 3.
SplitSize(content) == IF ~IsTransition(PyAt(content, -3)) THEN 2 ELSE 3

\* A faulty variant of SplitRaises: the try block also reads content[-4].
SplitRaisesFourthFromLast(content) ==
    \/ ~PyHas(content, -4)
    \/ ~PyHas(PyDropLast(content, SplitSize(content)), -1)
    \/ \E j \in 0..(SplitSize(content) - 1) :
           ~PyHas(PyTakeLast(content, SplitSize(content)), j)

\* Some subscript inside the try block is out of range; the bare except turns
\* it into IndexError("Podcast must have more than 1 content.").
SplitRaises(content) ==
    \/ ~PyHas(content, -3)
    \/ ~PyHas(PyDropLast(content, SplitSize(content)), -1)
    \/ \E j \in 0..(SplitSize(content) - 1) :
           ~PyHas(PyTakeLast(content, SplitSize(content)), j)

\* A faulty variant of SplitError: the handler raises another exception.
SplitErrorValue == "ValueError"

\* raise IndexError("Podcast must have more than 1 content.")
SplitError == "IndexError"

\* first_half after first_half[-1].has_transition = False.
FirstHalf(content) ==
    LET fh == PyDropLast(content, SplitSize(content))
    IN  [fh EXCEPT ![Len(fh)].has_transition = FALSE]

\* A faulty variant of SecondHalf: second_half[2].is_news = False is left out
\* of the Transition branch.
SecondHalfFirstTwo(content) ==
    LET sh == PyTakeLast(content, SplitSize(content))
    IN  [j \in 1..Len(sh) |-> IF j <= 2 THEN [sh[j] EXCEPT !.is_news = FALSE] ELSE sh[j]]

\* second_half after is_news = False on each of its entries.
SecondHalf(content) ==
    LET sh == PyTakeLast(content, SplitSize(content))
    IN  [j \in 1..Len(sh) |-> [sh[j] EXCEPT !.is_news = FALSE]]

\* "male" if voice == "female" else "female"
Opposite(voice) == IF voice = "female" THEN "male" ELSE "female"

\* A faulty variant of ConfiguredTransitions: to_outro keeps the voice the
\* template was generated with.
ConfiguredTransitionsKeepToOutro(tr, fh, sh) ==
    [tr EXCEPT !["intro_to_content"].voice = Opposite(fh[1].voice),
               !["content_intro_to_content_info"].voice = fh[1].voice,
               !["to_last_content"].voice = Opposite(sh[1].voice)]

\* The four transitions after their speakers are configured.
ConfiguredTransitions(tr, fh, sh) ==
    [tr EXCEPT !["intro_to_content"].voice = Opposite(fh[1].voice),
               !["content_intro_to_content_info"].voice = fh[1].voice,
               !["to_last_content"].voice = Opposite(sh[1].voice),
               !["to_outro"].voice = Opposite(sh[1].voice)]

Introduction(intr, tr, fh) ==
    IF fh[1].voice = intr.voice
    THEN <<[intr EXCEPT !.has_transition = TRUE]>>
    ELSE <<intr, tr["intro_to_content"], tr["content_intro_to_content_info"]>>

\* A faulty variant of Outroduction: the test of the voices is inverted.
OutroductionInverted(out, gim, hasGim, tr, sh) ==
    IF sh[Len(sh)].voice # out.voice
    THEN IF hasGim THEN <<gim, out>> ELSE <<out>>
    ELSE IF hasGim THEN <<tr["to_outro"], gim, out>> ELSE <<tr["to_outro"], out>>

Outroduction(out, gim, hasGim, tr, sh) ==
    IF sh[Len(sh)].voice = out.voice
    THEN IF hasGim THEN <<gim, out>> ELSE <<out>>
    ELSE IF hasGim THEN <<tr["to_outro"], gim, out>> ELSE <<tr["to_outro"], out>>

\* A faulty variant of Assemble: to_last_content is put after the second half.
AssembleTransitionLast(introBlock, fh, toLast, sh, outroBlock) ==
    introBlock \o fh \o sh \o <<toLast>> \o outroBlock

\* podcast = introduction + first_half + [to_last_content] + second_half + outroduction
Assemble(introBlock, fh, toLast, sh, outroBlock) ==
    introBlock \o fh \o <<toLast>> \o sh \o outroBlock

\* -------------------------------------------------------------------- state

VARIABLES
    pc,              \* where each request stands
    request_body,    \* podcast_config.content as posted (never changed)
    content_config,  \* Podcast.content_config
    scheduled,       \* background_tasks.add_task(bg_generate, ...) was called
    intro, outro, gimmick, transitions, has_gimmick,
    content,         \* the ingested sections
    ingested,        \* ingest_content has returned
    first_half, second_half, introduction, outroduction,
    podcast,         \* the script
    cursor,          \* i of the synthesis loop (python index)
    calls,           \* the backend calls made for the request, in order
    error,           \* the exception that ended the request
    upload_args,     \* service and clean_up of the running __upload__
    files            \* the files on disk

vars ==
    <<pc, request_body, content_config, scheduled, intro, outro, gimmick,
      transitions, has_gimmick, content, ingested, first_half, second_half,
      introduction, outroduction, podcast, cursor, calls, error, upload_args,
      files>>

sequencingVars ==
    <<content, ingested, first_half, second_half, introduction, outroduction,
      podcast>>

partVars == <<intro, outro, gimmick, transitions, has_gimmick>>

NoArgs == [service |-> "none", clean_up |-> FALSE]

\* The state in which the requests of Posted carry a body drawn from bodies.
InitWith(Posted, bodies) ==
    /\ pc = [r \in Requests |-> IF r \in Posted THEN "received" ELSE "absent"]
    /\ request_body \in [Requests -> bodies \cup {<< >>}]
    /\ \A r \in Requests : request_body[r] \in (IF r \in Posted THEN bodies ELSE {<< >>})
    /\ content_config = [r \in Requests |-> <<>>]
    /\ scheduled = [r \in Requests |-> FALSE]
    /\ intro = [r \in Requests |-> NoSection]
    /\ outro = [r \in Requests |-> NoSection]
    /\ gimmick = [r \in Requests |-> NoSection]
    /\ transitions = [r \in Requests |-> NoTransitions]
    /\ has_gimmick = [r \in Requests |-> FALSE]
    /\ content = [r \in Requests |-> <<>>]
    /\ ingested = [r \in Requests |-> FALSE]
    /\ first_half = [r \in Requests |-> <<>>]
    /\ second_half = [r \in Requests |-> <<>>]
    /\ introduction = [r \in Requests |-> <<>>]
    /\ outroduction = [r \in Requests |-> <<>>]
    /\ podcast = [r \in Requests |-> <<>>]
    /\ cursor = [r \in Requests |-> 0]
    /\ calls = [r \in Requests |-> <<>>]
    /\ error = [r \in Requests |-> "none"]
    /\ upload_args = [r \in Requests |-> NoArgs]
    /\ files = {}

Init == InitWith({1}, TypicalBodies)

\* One request with any body of at most MaxConfig entries.
InitNorm == InitWith({1}, Configs(MaxConfig))

\* Two requests posted side by side.
InitConcurrent == InitWith(Requests, ConcurrentBodies)

\* ------------------------------------------------------------- post_generate

\* post_generate: builds the Podcast from the posted content and schedules
\* bg_generate; when the constructor raises (ok = FALSE) the except branch logs
\* the error and nothing is scheduled.
PostGenerate(r) ==
    /\ pc[r] = "received"
    /\ \E ok \in BOOLEAN :
          IF ok
          THEN /\ content_config' = [content_config EXCEPT ![r] = request_body[r]]
               /\ scheduled' = [scheduled EXCEPT ![r] = TRUE]
               /\ pc' = [pc EXCEPT ![r] = "scheduled"]
          ELSE /\ pc' = [pc EXCEPT ![r] = "rejected"]
               /\ UNCHANGED <<content_config, scheduled>>
    /\ UNCHANGED <<request_body, partVars, sequencingVars, cursor, calls, error,
                   upload_args, files>>

\* ------------------------------------------------ process_podcast, lines 250-257

\* generate_intro, generate_outro, generate_transitions, has_gimmick and
\* generate_gimmick.  iv, ov, gv and tv are the voices of the templates that
\* random.choice picks.
GenerateParts(r) ==
    /\ pc[r] = "scheduled"
    /\ \E iv \in Voices, ov \in Voices, gv \in Voices, tv \in [TransitionNames -> Voices] :
          LET cfg0 == content_config[r]
              cfg1 == ConfigAfter(cfg0, "Intro")
              cfg2 == ConfigAfter(cfg1, "Outro")
          IN  /\ intro' = [intro EXCEPT ![r] =
                    TemplateSection("Intro", "intro", DirectiveVoice(cfg0, "Intro", iv))]
              /\ outro' = [outro EXCEPT ![r] =
                    TemplateSection("Outro", "outro", DirectiveVoice(cfg1, "Outro", ov))]
              /\ transitions' = [transitions EXCEPT ![r] =
                    [n \in TransitionNames |-> TemplateSection("Transition", n, tv[n])]]
              /\ has_gimmick' = [has_gimmick EXCEPT ![r] = HasGimmick(cfg2)]
              /\ gimmick' = [gimmick EXCEPT ![r] =
                    IF HasGimmick(cfg2) THEN TemplateSection("Gimmick", "gimmick", gv)
                    ELSE NoSection]
              /\ content_config' = [content_config EXCEPT ![r] = cfg2]
    /\ pc' = [pc EXCEPT ![r] = "prepared"]
    /\ UNCHANGED <<request_body, scheduled, sequencingVars, cursor, calls, error,
                   upload_args, files>>

\* ------------------------------------------------ process_podcast, lines 259-311

\* ingest_content returns c; the split, the speakers of the transitions, the
\* introduction, the outroduction and the script, or the IndexError of the
\* try block.
IngestAndSequence(r, Returned) ==
    /\ pc[r] = "prepared"
    /\ \E c \in Returned :
          /\ content' = [content EXCEPT ![r] = c]
          /\ ingested' = [ingested EXCEPT ![r] = TRUE]
          /\ files' = files \cup ({c[j].audio_path : j \in 1..Len(c)} \ {NoFile})
          /\ IF SplitRaises(c)
             THEN /\ pc' = [pc EXCEPT ![r] = "failed"]
                  /\ error' = [error EXCEPT ![r] = SplitError]
                  /\ UNCHANGED <<transitions, first_half, second_half, introduction,
                                 outroduction, podcast>>
             ELSE LET fh == FirstHalf(c)
                      sh == SecondHalf(c)
                      tr == ConfiguredTransitions(transitions[r], fh, sh)
                      ib == Introduction(intro[r], tr, fh)
                      ob == Outroduction(outro[r], gimmick[r], has_gimmick[r], tr, sh)
                  IN  /\ first_half' = [first_half EXCEPT ![r] = fh]
                      /\ second_half' = [second_half EXCEPT ![r] = sh]
                      /\ transitions' = [transitions EXCEPT ![r] = tr]
                      /\ introduction' = [introduction EXCEPT ![r] = ib]
                      /\ outroduction' = [outroduction EXCEPT ![r] = ob]
                      /\ podcast' = [podcast EXCEPT ![r] =
                            Assemble(ib, fh, tr["to_last_content"], sh, ob)]
                      /\ pc' = [pc EXCEPT ![r] = "synthesizing"]
                      /\ UNCHANGED error
    /\ UNCHANGED <<request_body, content_config, scheduled, intro, outro, gimmick,
                   has_gimmick, cursor, calls, upload_args>>

\* ------------------------------------------------ process_podcast, lines 322-328

Call(op, arg) == [op |-> op, arg |-> arg]

\* The file AudioController.synthesize writes for section i of request r: a
\* fresh name in the placeholder directory.
SynthesizedFile(r, i) == File("placeholder", r, i + 1)

\* A faulty variant of NeedsSynthesis: every section is submitted.
NeedsSynthesisAlways(section) == TRUE

\* if not section.audio_path
NeedsSynthesis(section) == section.audio_path = NoFile

\* A faulty variant of AfterSynthesisRaise: the exception is caught and the
\* loop stays at the section.
AfterSynthesisRaiseRetry(at) == at

\* Where the request stands after AudioController.synthesize has raised at
\* position `at`: nothing from the loop up to bg_generate catches the
\* exception, so the unit ends.
AfterSynthesisRaise(at) == "failed"

\* One iteration of the synthesis loop (synthesize=True): a section that has
\* audio is passed over; otherwise the backend is called with the section and
\* either returns a file (ok) or raises.
SynthesisStep(r) ==
    /\ pc[r] = "synthesizing"
    /\ cursor[r] < Len(podcast[r])
    /\ LET i == cursor[r]
           section == podcast[r][i + 1]
           next == IF i + 1 = Len(podcast[r]) THEN "merge" ELSE "synthesizing"
       IN  IF ~NeedsSynthesis(section)
           THEN /\ cursor' = [cursor EXCEPT ![r] = i + 1]
                /\ pc' = [pc EXCEPT ![r] = next]
                /\ UNCHANGED <<podcast, calls, error, files>>
           ELSE \E ok \in BOOLEAN :
                   /\ calls' = [calls EXCEPT ![r] = Append(@, Call("synthesize", i))]
                   /\ IF ok
                      THEN /\ podcast' = [podcast EXCEPT ![r][i + 1].audio_path =
                                             SynthesizedFile(r, i)]
                           /\ files' = files \cup {SynthesizedFile(r, i)}
                           /\ cursor' = [cursor EXCEPT ![r] = i + 1]
                           /\ pc' = [pc EXCEPT ![r] = next]
                           /\ UNCHANGED error
                      ELSE /\ pc' = [pc EXCEPT ![r] = AfterSynthesisRaise(pc[r])]
                           /\ error' = [error EXCEPT ![r] = "SynthesisError"]
                           /\ UNCHANGED <<podcast, cursor, files>>
    /\ UNCHANGED <<request_body, content_config, scheduled, partVars, content,
                   ingested, first_half, second_half, introduction, outroduction,
                   upload_args>>

\* ---------------------------------------------------- __generate__, lines 358-370

pipelineFrame ==
    <<request_body, content_config, scheduled, partVars, sequencingVars, cursor,
      upload_args>>

AudioFiles(script) == {script[j].audio_path : j \in 1..Len(script)}

\* exports/{filename}.mp3; the filename carries the request's uuid.
ExportFile(r) == File("exports", r, 0)

\* AudioController.merge_audio: reads the audio of every section; it raises
\* when a file is gone or when the backend fails (ok = FALSE).
MergeAudio(r) ==
    /\ pc[r] = "merge"
    /\ calls' = [calls EXCEPT ![r] = Append(@, Call("merge_audio", 0))]
    /\ \E ok \in BOOLEAN :
          IF ok /\ AudioFiles(podcast[r]) \subseteq files
          THEN /\ pc' = [pc EXCEPT ![r] = "export"]
               /\ UNCHANGED error
          ELSE /\ pc' = [pc EXCEPT ![r] = "failed"]
               /\ error' = [error EXCEPT ![r] = "MergeError"]
    /\ UNCHANGED <<pipelineFrame, files>>

\* AudioController.export writes the export file.
Export(r) ==
    /\ pc[r] = "export"
    /\ calls' = [calls EXCEPT ![r] = Append(@, Call("export", 0))]
    /\ files' = files \cup {ExportFile(r)}
    /\ pc' = [pc EXCEPT ![r] = "cleanup"]
    /\ UNCHANGED <<pipelineFrame, error>>

\* A faulty variant of RemoveSectionAudio: the audio of the sections is removed
\* once the loop has ended, before merge_audio has read it.
RemoveSectionAudioBeforeMerge(r) ==
    /\ pc[r] = "merge"
    /\ files' = files \ AudioFiles(podcast[r])
    /\ UNCHANGED <<pc, pipelineFrame, calls, error>>

\* if clean_up: os.remove(section.audio_path) for every section, a failing
\* remove being passed over.
RemoveSectionAudio(r) ==
    /\ pc[r] = "cleanup"
    /\ files' = files \ AudioFiles(podcast[r])
    /\ pc' = [pc EXCEPT ![r] = "generated"]
    /\ UNCHANGED <<pipelineFrame, calls, error>>

\* ------------------------------------------------------ __upload__, lines 391-410

SupportedServices == {"azfileshare", "azblobstorage", "buzzsprout"}

\* The names a caller may pass: the supported ones and one that is not.
ServiceNames == SupportedServices \cup {"spotify"}

\* A faulty variant of IsSupported: the final else branch is never taken.
IsSupportedAny(service) == TRUE

\* The if / elif chain on the service name.
IsSupported(service) ==
    \/ service = "azfileshare"
    \/ service = "azblobstorage"
    \/ service = "buzzsprout"

\* The dispatch on the service name and the backend's upload, which returns
\* (ok, with the export in place) or raises.
Upload(r, service, clean) ==
    /\ pc[r] = "generated"
    /\ upload_args' = [upload_args EXCEPT ![r] = [service |-> service, clean_up |-> clean]]
    /\ IF IsSupported(service)
       THEN /\ calls' = [calls EXCEPT ![r] = Append(@, Call("upload", 0))]
            /\ \E ok \in BOOLEAN :
                  IF ok /\ ExportFile(r) \in files
                  THEN /\ pc' = [pc EXCEPT ![r] = "uploaded"]
                       /\ UNCHANGED error
                  ELSE /\ pc' = [pc EXCEPT ![r] = "failed"]
                       /\ error' = [error EXCEPT ![r] = "UploadError"]
       ELSE /\ pc' = [pc EXCEPT ![r] = "failed"]
            /\ error' = [error EXCEPT ![r] = "NotImplementedError"]
            /\ UNCHANGED calls
    /\ UNCHANGED <<request_body, content_config, scheduled, partVars, sequencingVars,
                   cursor, files>>

\* if clean_up: os.remove(path_to_mp3), which raises when the file is gone.
RemoveExport(r) ==
    /\ pc[r] = "uploaded"
    /\ IF ~upload_args[r].clean_up
       THEN /\ pc' = [pc EXCEPT ![r] = "published"]
            /\ UNCHANGED <<files, error>>
       ELSE IF ExportFile(r) \in files
            THEN /\ files' = files \ {ExportFile(r)}
                 /\ pc' = [pc EXCEPT ![r] = "published"]
                 /\ UNCHANGED error
            ELSE /\ pc' = [pc EXCEPT ![r] = "failed"]
                 /\ error' = [error EXCEPT ![r] = "FileNotFoundError"]
                 /\ UNCHANGED files
    /\ UNCHANGED <<pipelineFrame, calls>>

\* ----------------------------------------------------- bg_generate, lines 68-82

\* podcast.__upload__(service="azblobstorage", clean_up=True, ...)
BgUpload(r) == Upload(r, "azblobstorage", TRUE)

\* A caller of __upload__ with any service name and either clean_up.
AnyUpload(r) == \E service \in ServiceNames, clean \in BOOLEAN : Upload(r, service, clean)

\* clean_up: every file of the directory is removed.
Emptied(directory) == {f \in files : f.dir # directory}

\* await clean_up(["placeholder", "exports"]), one directory at a step; the
\* listdir and the removes of one directory are taken together.
CleanUpPlaceholder(r) ==
    /\ pc[r] = "published"
    /\ files' = Emptied("placeholder")
    /\ pc' = [pc EXCEPT ![r] = "cleaning"]
    /\ UNCHANGED <<pipelineFrame, calls, error>>

CleanUpExports(r) ==
    /\ pc[r] = "cleaning"
    /\ files' = Emptied("exports")
    /\ pc' = [pc EXCEPT ![r] = "done"]
    /\ UNCHANGED <<pipelineFrame, calls, error>>

\* ------------------------------------------------------------ specifications

\* The steps of a background unit after the ingestion.
Pipeline(r) ==
    \/ SynthesisStep(r)
    \/ MergeAudio(r)
    \/ Export(r)
    \/ RemoveSectionAudio(r)
    \/ BgUpload(r)
    \/ RemoveExport(r)
    \/ CleanUpPlaceholder(r)
    \/ CleanUpExports(r)

\* One request through its whole background unit; the ingestion returns
\* sections without audio.
Next ==
    \E r \in Requests :
        \/ PostGenerate(r)
        \/ GenerateParts(r)
        \/ IngestAndSequence(r, IngestedContents(r, MaxContent, Voices, {FALSE}))
        \/ Pipeline(r)

Spec == Init /\ [][Next]_vars

\* One request with any body, up to the normalised configuration.
NextNorm ==
    \E r \in Requests :
        \/ PostGenerate(r)
        \/ GenerateParts(r)

SpecNorm == InitNorm /\ [][NextNorm]_vars

\* One request through its whole background unit; the ingestion may return
\* sections that already have audio, all of one voice.
NextPipe ==
    \E r \in Requests :
        \/ PostGenerate(r)
        \/ GenerateParts(r)
        \/ IngestAndSequence(r, IngestedContents(r, MaxPipeContent, {"male"}, BOOLEAN))
        \/ Pipeline(r)

SpecPipe == Init /\ [][NextPipe]_vars

\* One podcast generated and then uploaded by a caller that chooses the
\* arguments of __upload__.
NextUpload ==
    \E r \in Requests :
        \/ PostGenerate(r)
        \/ GenerateParts(r)
        \/ IngestAndSequence(r, PlainContents(r))
        \/ SynthesisStep(r)
        \/ MergeAudio(r)
        \/ Export(r)
        \/ RemoveSectionAudio(r)
        \/ AnyUpload(r)
        \/ RemoveExport(r)

SpecUpload == Init /\ [][NextUpload]_vars

\* Two requests whose background units run side by side, as they do when the
\* application is served by more than one worker process over the same
\* working directory.
NextConcurrent ==
    \E r \in Requests :
        \/ PostGenerate(r)
        \/ GenerateParts(r)
        \/ IngestAndSequence(r, PlainContents(r))
        \/ Pipeline(r)

SpecConcurrent == InitConcurrent /\ [][NextConcurrent]_vars

\* One request up to the end of its sequencing, the ingestion setting the
\* flags of its sections freely.
InitFlags == InitWith({1}, ConcurrentBodies)

NextFlags ==
    \E r \in Requests :
        \/ PostGenerate(r)
        \/ GenerateParts(r)
        \/ IngestAndSequence(r, FlaggedContents(r, MaxContent))

SpecFlags == InitFlags /\ [][NextFlags]_vars

\* ------------------------------------------------------------------- claims

\* The script of request r exists: sequencing has returned without raising.
Sequenced(r) == podcast[r] # << >>

\* A script as sequencing left it, before any audio was attached to it.
Silent(script) == [j \in 1..Len(script) |-> [script[j] EXCEPT !.audio_path = NoFile]]

Roles(script) == [j \in 1..Len(script) |-> script[j].role]

IsContent(s) == s.role = "content"

ContentOf(script) == SelectSeq(script, IsContent)

Positions(script, role) == {j \in 1..Len(script) : script[j].role = role}

\* C1: when sequencing does not raise, the script is introduction + first_half
\* + [to_last_content] + second_half + outroduction: the ingested sections
\* appear once each in their ingested order, the Intro is first, the Outro is
\* last, and to_last_content stands between the last section of the first half
\* and the first section of the second half.
C1_ScriptIsConcatenation ==
    \A r \in Requests : Sequenced(r) =>
        LET script == Silent(podcast[r])
            n == Len(content[r])
            k == Len(second_half[r])
            p == Len(introduction[r]) + Len(first_half[r]) + 1
            inner == ContentOf(script)
        IN  /\ script = introduction[r] \o first_half[r]
                          \o <<transitions[r]["to_last_content"]>>
                          \o second_half[r] \o outroduction[r]
            /\ Len(inner) = n
            /\ \A j \in 1..n : /\ inner[j].idx = j
                               /\ inner[j].kind = content[r][j].kind
                               /\ inner[j].voice = content[r][j].voice
            /\ Positions(script, "intro") = {1}
            /\ script[1].kind = "Intro"
            /\ Positions(script, "outro") = {Len(script)}
            /\ script[Len(script)].kind = "Outro"
            /\ Positions(script, "to_last_content") = {p}
            /\ IsContent(script[p - 1]) /\ script[p - 1].idx = n - k
            /\ IsContent(script[p + 1]) /\ script[p + 1].idx = n - k + 1

\* C1 witness: a sequenced script with a three-section introduction, a
\* three-entry second half and a gimmick.
C1_Witness ==
    /\ pc[1] = "synthesizing"
    /\ Len(content[1]) = 4
    /\ Len(introduction[1]) = 3
    /\ Len(second_half[1]) = 3
    /\ has_gimmick[1]

\* The split does not raise on this list.
Splittable(c) == Len(c) >= 4 \/ (Len(c) = 3 /\ ~IsTransition(c[1]))

BlockLengths(r) ==
    Len(introduction[r]) + Len(first_half[r]) + 1 + Len(second_half[r])
        + Len(outroduction[r])

\* C2 as stated: every ingested list of length >= 2, length 2 included, is
\* sequenced into a script of length len(introduction) + len(first_half) + 1 +
\* len(second_half) + len(outroduction).
C2_EveryListOfTwoOrMore ==
    \A r \in Requests : (ingested[r] /\ Len(content[r]) >= 2) =>
        /\ Sequenced(r)
        /\ Len(podcast[r]) = BlockLengths(r)

\* C2 amended: every ingested list of length >= 4, and every list of length 3
\* whose first entry is no Transition, is sequenced into a script of that
\* length, the two halves sharing out the ingested sections; a list of length
\* 2 raises the IndexError and yields no script.
C2_ScriptLength ==
    \A r \in Requests : ingested[r] =>
        /\ Splittable(content[r]) =>
              /\ Sequenced(r)
              /\ error[r] # "IndexError"
              /\ Len(podcast[r]) = BlockLengths(r)
              /\ Len(first_half[r]) + Len(second_half[r]) = Len(content[r])
              /\ Len(first_half[r]) >= 1
              /\ Len(introduction[r]) \in {1, 3}
              /\ Len(outroduction[r]) \in {1, 2, 3}
        /\ Len(content[r]) = 2 =>
              /\ ~Sequenced(r)
              /\ pc[r] = "failed"
              /\ error[r] = "IndexError"

\* C2 witness: a list of three sections sequenced into a script of
\* 1 + 1 + 1 + 2 + 1 sections.
C2_Witness ==
    /\ ingested[1]
    /\ Len(content[1]) = 3
    /\ Sequenced(1)
    /\ Len(podcast[1]) = 6
    /\ Len(introduction[1]) = 1
    /\ Len(outroduction[1]) = 1

\* C3: the introduction is [intro] with intro.has_transition set when the
\* voice of the Intro is that of the first section of the first half, and
\* [intro, intro_to_content, content_intro_to_content_info] otherwise; the
\* outroduction is [outro] or [gimmick, outro] when the voice of the last
\* section of the second half is that of the Outro, and [to_outro, outro] or
\* [to_outro, gimmick, outro] otherwise; the gimmick is in the script exactly
\* when has_gimmick holds and stands right before the Outro.
C3_BlockShapes ==
    \A r \in Requests : Sequenced(r) =>
        LET script == Silent(podcast[r])
            sameHead == intro[r].voice = first_half[r][1].voice
            sameTail == second_half[r][Len(second_half[r])].voice = outro[r].voice
        IN  /\ sameHead =>
                  /\ Roles(introduction[r]) = <<"intro">>
                  /\ introduction[r][1].has_transition
            /\ ~sameHead =>
                  /\ Roles(introduction[r]) =
                        <<"intro", "intro_to_content", "content_intro_to_content_info">>
                  /\ introduction[r][1] = intro[r]
            /\ introduction[r][1].voice = intro[r].voice
            /\ (sameTail /\ ~has_gimmick[r]) => Roles(outroduction[r]) = <<"outro">>
            /\ (sameTail /\ has_gimmick[r]) =>
                  Roles(outroduction[r]) = <<"gimmick", "outro">>
            /\ (~sameTail /\ ~has_gimmick[r]) =>
                  Roles(outroduction[r]) = <<"to_outro", "outro">>
            /\ (~sameTail /\ has_gimmick[r]) =>
                  Roles(outroduction[r]) = <<"to_outro", "gimmick", "outro">>
            /\ outroduction[r][Len(outroduction[r])] = outro[r]
            /\ (Positions(script, "gimmick") # {}) <=> has_gimmick[r]
            /\ \A j \in Positions(script, "gimmick") :
                  /\ script[j].kind = "Gimmick"
                  /\ j + 1 = Len(script)
                  /\ script[j + 1].kind = "Outro"

\* C3 witness: a script with the one-section introduction and the
\* three-section outroduction.
C3_Witness ==
    /\ Sequenced(1)
    /\ Roles(introduction[1]) = <<"intro">>
    /\ Roles(outroduction[1]) = <<"to_outro", "gimmick", "outro">>

\* The files request r still reads: the audio of its sections until the merge
\* has run, its export from the export until os.remove in __upload__.
Needed(r) ==
    IF pc[r] \in {"synthesizing", "merge"}
    THEN AudioFiles(podcast[r]) \ {NoFile}
    ELSE IF pc[r] \in {"cleanup", "generated", "uploaded"}
         THEN {ExportFile(r)}
         ELSE {}

\* C4 as stated: under any interleaving of two background units, no step of
\* one unit (its clean_up included) removes an audio file or an export that
\* the other unit still reads: a file a request needs disappears only by a
\* step of that request.
C4_NoCollision ==
    [][\A r \in Requests : \A f \in Needed(r) :
            (f \in files /\ f \notin files') => pc'[r] # pc[r]]_vars

\* C5 as stated: a content of one section makes sequencing fail with the
\* IndexError, and no background unit is scheduled for the request.
C5_NothingScheduled ==
    \A r \in Requests : (ingested[r] /\ Len(content[r]) = 1) =>
        /\ pc[r] = "failed"
        /\ error[r] = "IndexError"
        /\ ~scheduled[r]

\* C5 amended: a content of one section makes sequencing fail with the
\* IndexError inside the background unit that post_generate has scheduled;
\* the unit ends there, with no script, no backend call and no file written.
C5_SingleSectionFailsInUnit ==
    \A r \in Requests : (ingested[r] /\ Len(content[r]) = 1) =>
        /\ pc[r] = "failed"
        /\ error[r] = "IndexError"
        /\ scheduled[r]
        /\ ~Sequenced(r)
        /\ calls[r] = << >>
        /\ files = {}

\* C5 witness: the unit of a request has failed on a content of one section.
C5_Witness ==
    /\ ingested[1]
    /\ Len(content[1]) = 1
    /\ scheduled[1]
    /\ error[1] = "IndexError"

CallsOf(r, op) == {m \in 1..Len(calls[r]) : calls[r][m].op = op}

\* C6: when the synthesis backend raises for a section, the request ends: the
\* failing call is the last call, that section was submitted once, and neither
\* merge_audio nor export nor an upload backend is called, so no export exists.
C6_SynthesisFailureIsFatal ==
    \A r \in Requests : error[r] = "SynthesisError" =>
        /\ pc[r] = "failed"
        /\ calls[r] # << >>
        /\ calls[r][Len(calls[r])] = Call("synthesize", cursor[r])
        /\ \A m \in 1..(Len(calls[r]) - 1) : calls[r][m] # Call("synthesize", cursor[r])
        /\ CallsOf(r, "merge_audio") = {}
        /\ CallsOf(r, "export") = {}
        /\ CallsOf(r, "upload") = {}
        /\ ExportFile(r) \notin files

\* C6 witness: the backend has raised for a section after it had served
\* earlier ones.
C6_Witness ==
    /\ error[1] = "SynthesisError"
    /\ pc[1] = "failed"
    /\ Len(calls[1]) >= 3

\* The section at position j of the script came from the ingestion with audio.
PreAttached(r, j) ==
    /\ IsContent(podcast[r][j])
    /\ content[r][podcast[r][j].idx].audio_path # NoFile

\* The number of times position j of the script (python index j - 1) was
\* submitted to the synthesis backend.
Submissions(r, j) ==
    Cardinality({m \in 1..Len(calls[r]) : calls[r][m] = Call("synthesize", j - 1)})

\* The synthesis loop has passed position j of the script.
Passed(r, j) == j - 1 < cursor[r]

\* C7: a section that has audio when the loop reaches it is never submitted to
\* the synthesis backend and keeps its audio; a section without audio is
\* submitted once, when the loop reaches it, and never again; once the loop
\* has ended every section of the script has audio.
C7_SynthesisOnlyWhenAbsent ==
    \A r \in Requests : Sequenced(r) =>
        \A j \in 1..Len(podcast[r]) :
            /\ PreAttached(r, j) =>
                  /\ Submissions(r, j) = 0
                  /\ podcast[r][j].audio_path = content[r][podcast[r][j].idx].audio_path
            /\ ~PreAttached(r, j) =>
                  /\ Submissions(r, j) <= 1
                  /\ Passed(r, j) => Submissions(r, j) = 1
                  /\ Passed(r, j) <=> podcast[r][j].audio_path # NoFile
            /\ cursor[r] = Len(podcast[r]) => podcast[r][j].audio_path # NoFile

\* C7 witness: the loop has ended on a script in which one section came with
\* audio and another one was synthesized.
C7_Witness ==
    /\ Sequenced(1)
    /\ pc[1] = "merge"
    /\ cursor[1] = Len(podcast[1])
    /\ \E j \in 1..Len(podcast[1]) : PreAttached(1, j)
    /\ \E j \in 1..Len(podcast[1]) :
          IsContent(podcast[1][j]) /\ ~PreAttached(1, j) /\ Submissions(1, j) = 1

\* __upload__ has been entered for request r.
Entered(r) == upload_args[r] # NoArgs

\* C8: __upload__ with a service name outside azfileshare, azblobstorage and
\* buzzsprout ends with NotImplementedError, calls no upload backend and
\* leaves the export in place; with a supported name the export is removed
\* only once the backend has returned and only when clean_up is set.
C8_UploadDispatch ==
    \A r \in Requests : Entered(r) =>
        /\ upload_args[r].service \notin SupportedServices =>
              /\ pc[r] = "failed"
              /\ error[r] = "NotImplementedError"
              /\ CallsOf(r, "upload") = {}
              /\ ExportFile(r) \in files
        /\ upload_args[r].service \in SupportedServices =>
              /\ error[r] # "NotImplementedError"
              /\ Cardinality(CallsOf(r, "upload")) = 1
              /\ ExportFile(r) \notin files =>
                    /\ pc[r] = "published"
                    /\ error[r] = "none"
                    /\ upload_args[r].clean_up
              /\ (pc[r] = "published" /\ ~upload_args[r].clean_up) => ExportFile(r) \in files
              /\ (pc[r] = "published" /\ upload_args[r].clean_up) => ExportFile(r) \notin files

\* C8 witness: __upload__ has been called with an unsupported service name on
\* an existing export, with clean_up set.
C8_Witness ==
    /\ Entered(1)
    /\ upload_args[1].service = "spotify"
    /\ upload_args[1].clean_up
    /\ error[1] = "NotImplementedError"
    /\ ExportFile(1) \in files

IsContentEntry(entry) == entry.type \notin {"Intro", "Outro"}

\* C9 as stated: after generate_intro and generate_outro the content_config
\* list is the posted list without its Intro and Outro entries, the other
\* entries kept in order, also when the list has no Intro or no Outro entry.
C9_ResidualIsFiltered ==
    \A r \in Requests : pc[r] = "prepared" =>
        content_config[r] = SelectSeq(request_body[r], IsContentEntry)

NonTransitions(c) == {j \in 1..Len(c) : ~IsTransition(c[j])}

\* Nothing was synthesized, merged or exported for request r.
NoArtifact(r) ==
    /\ calls[r] = << >>
    /\ ~Sequenced(r)
    /\ \A f \in files : f.owner = r => f.dir \notin {"placeholder", "exports"}

Unflagged(c) ==
    [j \in 1..Len(c) |-> [c[j] EXCEPT !.has_transition = FALSE, !.is_news = FALSE]]

\* The halves of request r are the last k entries of its ingested list and
\* everything before them.
SplitAt(r, k) ==
    /\ Sequenced(r)
    /\ Len(second_half[r]) = k
    /\ Len(first_half[r]) = Len(content[r]) - k
    /\ Unflagged(first_half[r] \o second_half[r]) = Unflagged(content[r])

\* C11 as stated: every ingested list of 2 or more entries is split, a list
\* whose third-from-last entry is a Transition into everything before its last
\* 3 entries and these 3, any other list (one of exactly 2 entries included)
\* into everything before its last 2 entries and these 2.
C11_SplitByThirdFromLast ==
    \A r \in Requests : (ingested[r] /\ Len(content[r]) >= 2) =>
        IF Len(content[r]) >= 3 /\ IsTransition(content[r][Len(content[r]) - 2])
        THEN SplitAt(r, 3)
        ELSE SplitAt(r, 2)

\* C11 amended: a list that sequencing accepts is split by its third-from-last
\* entry alone, into a non-empty first half and a second half of its last 3
\* entries when that entry is a Transition and of its last 2 entries
\* otherwise, and first_half followed by second_half is the ingested list
\* (with the flags the split sets).  A list of exactly 2 entries, or of 3
\* entries of which the first is a Transition, is not split: sequencing ends
\* with the IndexError and no half is built.  Every other list of 3 or more
\* entries is accepted.
C11_SplitOfAcceptedLists ==
    \A r \in Requests : ingested[r] =>
        LET n == Len(content[r])
        IN  /\ Sequenced(r) =>
                /\ n >= 3
                /\ Len(first_half[r]) >= 1
                /\ IF IsTransition(content[r][n - 2])
                   THEN SplitAt(r, 3)
                   ELSE SplitAt(r, 2)
            /\ (n = 2 \/ (n = 3 /\ IsTransition(content[r][1]))) =>
                /\ error[r] = "IndexError"
                /\ first_half[r] = << >>
                /\ second_half[r] = << >>
            /\ (n >= 3 /\ ~(n = 3 /\ IsTransition(content[r][1]))) => Sequenced(r)

\* C11 witness: a list of four entries whose third-from-last entry is a
\* Transition and whose second-from-last entry is not has been split into its
\* first entry and its last three.
C11_Witness ==
    /\ Len(content[1]) = 4
    /\ IsTransition(content[1][2])
    /\ ~IsTransition(content[1][3])
    /\ SplitAt(1, 3)
    /\ Len(first_half[1]) = 1

\* The voice of transition t of request r, and of its copy in the script
\* when the script has one.
TransitionVoice(r, t, voice) ==
    /\ transitions[r][t].voice = voice
    /\ \A j \in Positions(podcast[r], t) : podcast[r][j].voice = voice

\* C12: after a successful sequencing, intro_to_content speaks with the voice
\* other than the first first-half section's, content_intro_to_content_info
\* with that section's voice, to_last_content with the voice other than the first
\* second-half section's, and to_outro with to_last_content's voice; this
\* holds whatever voices the templates, the Intro and the Outro had and
\* whichever introduction and tail were built.
C12_TransitionVoices ==
    \A r \in Requests : Sequenced(r) =>
        LET f == first_half[r][1].voice
            s == second_half[r][1].voice
        IN  /\ f \in Voices /\ s \in Voices
            /\ \E v \in Voices \ {f} : TransitionVoice(r, "intro_to_content", v)
            /\ TransitionVoice(r, "content_intro_to_content_info", f)
            /\ \E v \in Voices \ {s} :
                  /\ TransitionVoice(r, "to_last_content", v)
                  /\ TransitionVoice(r, "to_outro", v)

\* C12 witness: a sequencing that built the short introduction (the Intro
\* speaks with the first section's voice) and the tail without to_outro,
\* with a female first half and a male second half.
C12_Witness ==
    /\ Sequenced(1)
    /\ first_half[1][1].voice = "female"
    /\ second_half[1][1].voice = "male"
    /\ intro[1].voice = "female"
    /\ Len(introduction[1]) = 1
    /\ Positions(podcast[1], "to_outro") = {}
    /\ transitions[1]["intro_to_content"].voice = "male"
    /\ transitions[1]["to_outro"].voice = "female"

\* Every call of operation a of request r was made before every call of b.
Precedes(r, a, b) == \A m \in CallsOf(r, a), n \in CallsOf(r, b) : m < n

\* The audio files of the sections of request r's script.
SectionAudio(r) == AudioFiles(podcast[r]) \ {NoFile}

\* C13: within one background unit the steps happen one after the other in
\* this order: sequencing; synthesis of the sections one at a time in script
\* order; merge, once every section has audio; export; removal of the audio of
\* the sections; upload, with the export written; removal of the export and
\* then the clean_up of the directories.
C13_StepsInOrder ==
    \A r \in Requests :
        /\ calls[r] # << >> => Sequenced(r)
        /\ cursor[r] > 0 => Sequenced(r)
        /\ \A m \in CallsOf(r, "synthesize"), n \in CallsOf(r, "synthesize") :
              m < n => calls[r][m].arg < calls[r][n].arg
        /\ \A j \in 1..Len(podcast[r]) :
              podcast[r][j].audio_path = SynthesizedFile(r, j - 1) =>
                  /\ Passed(r, j)
                  /\ \A k \in 1..j : podcast[r][k].audio_path # NoFile
        /\ \A op \in {"merge_audio", "export", "upload"} :
              Cardinality(CallsOf(r, op)) <= 1
        /\ Precedes(r, "synthesize", "merge_audio")
        /\ Precedes(r, "merge_audio", "export")
        /\ Precedes(r, "export", "upload")
        /\ CallsOf(r, "merge_audio") # {} =>
              /\ cursor[r] = Len(podcast[r])
              /\ \A j \in 1..Len(podcast[r]) : podcast[r][j].audio_path # NoFile
        /\ CallsOf(r, "export") # {} => CallsOf(r, "merge_audio") # {}
        /\ ~(SectionAudio(r) \subseteq files) => CallsOf(r, "export") # {}
        /\ CallsOf(r, "upload") # {} =>
              /\ CallsOf(r, "export") # {}
              /\ SectionAudio(r) \cap files = {}
        /\ pc[r] = "uploaded" => ExportFile(r) \in files
        /\ (CallsOf(r, "export") # {} /\ ExportFile(r) \notin files) =>
              /\ CallsOf(r, "upload") # {}
              /\ pc[r] \in {"published", "cleaning", "done"}
        /\ pc[r] \in {"cleaning", "done"} =>
              /\ ExportFile(r) \notin files
              /\ \A f \in files : f.dir # "placeholder"
        /\ pc[r] = "done" =>
              /\ Precedes(r, "synthesize", "upload")
              /\ CallsOf(r, "upload") # {}
              /\ \A f \in files : f.dir \notin {"placeholder", "exports"}

\* C13 witness: a unit has run to its end; two sections were synthesized, one
\* was passed over, and the merge, the export and the upload followed.
C13_Witness ==
    /\ pc[1] = "done"
    /\ Cardinality(CallsOf(1, "synthesize")) >= 2
    /\ \E j \in 1..Len(podcast[1]) : PreAttached(1, j)
    /\ Len(calls[1]) = Cardinality(CallsOf(1, "synthesize")) + 3
    /\ calls[1][Len(calls[1])].op = "upload"
    /\ calls[1][Len(calls[1]) - 1].op = "export"
    /\ calls[1][Len(calls[1]) - 2].op = "merge_audio"
    /\ files = {}

\* The content section of the script of request r that was ingested at
\* position j.
ScriptSection(r, j) ==
    podcast[r][CHOOSE p \in 1..Len(podcast[r]) :
                   IsContent(podcast[r][p]) /\ podcast[r][p].idx = j]

\* C14: after a successful sequencing the last entry of the first half has
\* has_transition = FALSE, every entry of the second half (2 or 3 entries) has
\* is_news = FALSE, and every other has_transition and is_news flag of an
\* ingested section is the one the ingestion returned, in the halves and in
\* the script.
C14_FlagsOfTheSplit ==
    \A r \in Requests : Sequenced(r) =>
        LET n == Len(content[r])
            h == Len(first_half[r])
            halves == first_half[r] \o second_half[r]
        IN  /\ Len(halves) = n
            /\ Len(second_half[r]) \in {2, 3}
            /\ ~first_half[r][h].has_transition
            /\ \A j \in 1..Len(second_half[r]) : ~second_half[r][j].is_news
            /\ \A j \in 1..n :
                  /\ halves[j].has_transition =
                        (IF j = h THEN FALSE ELSE content[r][j].has_transition)
                  /\ halves[j].is_news =
                        (IF j > h THEN FALSE ELSE content[r][j].is_news)
                  /\ ScriptSection(r, j).has_transition = halves[j].has_transition
                  /\ ScriptSection(r, j).is_news = halves[j].is_news

\* C14 witness: a list of four sections, all ingested with both flags set and
\* the second a Transition, has been split into one section and three; the
\* first has lost has_transition and kept is_news, the other three have lost
\* is_news and kept has_transition.
C14_Witness ==
    /\ Sequenced(1)
    /\ Len(content[1]) = 4
    /\ \A j \in 1..4 : content[1][j].has_transition /\ content[1][j].is_news
    /\ Len(first_half[1]) = 1
    /\ ~first_half[1][1].has_transition /\ first_half[1][1].is_news
    /\ Len(second_half[1]) = 3
    /\ \A j \in 1..3 : second_half[1][j].has_transition /\ ~second_half[1][j].is_news

====
